---- MODULE Spec2Model ----
(***************************************************************************)
(* Model of delta/data/preprocess/base_preparer.py: the Preparer lifecycle *)
(* (skip_prepare / done_prepare) and the TextPreparer preparation run      *)
(* (prepare_raw_data, prepare_one_raw_data, run_text_pipeline,             *)
(* prepare_vocabs, prepare_embed, do_prepare).                             *)
(*                                                                         *)
(* A path is the sequence of its components ("exp/run/done" is             *)
(* <<"exp","run","done">>), the empty string is <<>>.  Raw lines, labels   *)
(* and pipeline outputs are records naming their file, field and line, so  *)
(* that order, provenance and the bytes/str conversion stay observable.    *)
(***************************************************************************)
EXTENDS Integers, Sequences, FiniteSets, TLC

\* ---------------------------------------------------------------- bounds
MaxLines == 2     \* lines of one raw file: 0..MaxLines
MaxBatch == 2     \* batch_size: 1..MaxBatch
MaxOut   == 2     \* label vocabulary paths (output heads): 0..MaxOut
MaxCalls == 3     \* lifecycle calls made on one preparer object
NumFields == 2    \* parallel text fields a multi_text loader returns

\* ------------------------------------------------------------- constants
Absent == <<>>     \* a key the configuration does not have; <<v>> is a key set to v
TRAIN == "train"
EVAL  == "eval"
INFER == "infer"
Modes == {TRAIN, EVAL, INFER}

VARIABLES
  config,          \* the configuration mapping handed to __init__
  multi_text,      \* self.multi_text (False in the base class, set by subclasses)
  dirs,            \* directories existing in the filesystem
  files,           \* files existing in the filesystem: path -> content
  init_feed_dict,  \* self.init_feed_dict: sequence of (placeholder, value)
  all_texts,       \* accumulator of prepare_raw_data
  all_labels,      \* accumulator of prepare_raw_data
  pc,              \* position of the running call
  split_i,         \* position of the two nested loops of prepare_raw_data
  i,               \* loop variable i (text field, then output head)
  text,            \* what load_a_raw_file returned: text
  label,           \* what load_a_raw_file returned: label
  one_text_after,  \* processed text of the current split
  sess,            \* currently open sessions: sequence of session records
  text_after,      \* batches fetched by run_text_pipeline
  ret,             \* value returned by the last finished call
  exc,             \* exception raised by the last finished call, or "none"
  calls,           \* number of lifecycle calls made so far
  trace            \* log of the calls made to external collaborators

vars == <<config, multi_text, dirs, files, init_feed_dict, all_texts,
          all_labels, pc, split_i, i, text, label,
          one_text_after, sess, text_after, ret, exc, calls, trace>>

\* ------------------------------------------------------- python helpers
\* dict.get(key, default)
Get(v, default) == IF v = Absent THEN default ELSE v[1]

\* math.ceil(n / float(b)) for n >= 0, b >= 1
Ceil(n, b) == (n + b - 1) \div b

RECURSIVE Concat(_)
\* np.concatenate(list of arrays, axis=0) / flattening of a list of lists
Concat(ss) == IF ss = <<>> THEN <<>> ELSE Head(ss) \o Concat(Tail(ss))

\* ------------------------------------------------------------ filesystem
\* os.path.dirname on a relative path
dirname(p) == IF p = <<>> THEN <<>> ELSE SubSeq(p, 1, Len(p) - 1)

\* os.path.exists: the empty path never exists
exists(p) == p /= <<>> /\ (p \in dirs \/ p \in DOMAIN files)

\* every proper non-empty prefix of p, p included: what os.makedirs(p) creates
Prefixes(p) == { SubSeq(p, 1, k) : k \in 1..Len(p) }

\* os.makedirs(p) raises FileNotFoundError on the empty path
makedirs_raises(p) == p = <<>>

\* ------------------------------------------------------------- Preparer
\* Preparer.__init__
reuse     == Get(config.preparer.reuse, TRUE)
done_sign == Get(config.preparer.done_sign, <<>>)

\* Preparer.skip_prepare: the value returned
skip_prepare_noreuse == done_sign /= <<>> /\ exists(done_sign)
skip_prepare == done_sign /= <<>> /\ exists(done_sign) /\ reuse

\* Preparer.done_prepare: does the call reach os.makedirs with a path that raises
done_prepare_raises ==
  /\ done_sign /= <<>> /\ ~exists(done_sign)
  /\ ~exists(dirname(done_sign))
  /\ makedirs_raises(dirname(done_sign))

\* Preparer.done_prepare: the directories after the call
done_prepare_dirs ==
  IF done_sign /= <<>> /\ ~exists(done_sign) /\ ~exists(dirname(done_sign))
    THEN dirs \cup Prefixes(dirname(done_sign))
    ELSE dirs

\* Preparer.done_prepare: the files after the call (Path.touch creates an
\* empty file)
done_prepare_files ==
  IF done_sign /= <<>> /\ ~exists(done_sign) /\ ~done_prepare_raises
    THEN (done_sign :> [kind |-> "empty", data |-> <<>>]) @@ files
    ELSE files

\* --------------------------------------------------------- TextPreparer
\* the modes listed training first
all_modes_train_first == <<TRAIN, EVAL, INFER>>

\* TextPreparer.__init__
all_modes              == <<INFER, EVAL, TRAIN>>
infer_no_label         == Get(config.infer.infer_no_label, FALSE)
batch_size             == config.task.batch_size
use_custom_vocab       == Get(config.task.use_custom_vocab, FALSE)
text_vocab_file_path   == config.task.text_vocab
label_vocab_file_paths ==
  IF config.task.label_vocab.is_list
    THEN config.task.label_vocab.v
    ELSE << config.task.label_vocab.v >>
output_num   == Len(label_vocab_file_paths)
multi_output == output_num > 1

\* one_path + ".after"
after(one_path) == [one_path EXCEPT ![Len(one_path)] = @ \o ".after"]

\* the flag computed from the option alone, whatever the mode
infer_without_label_any_mode(mode) == infer_no_label

\* bool(mode == utils.INFER and self.infer_no_label)
infer_without_label(mode) == mode = INFER /\ infer_no_label

\* the (mode, one_path, one_path_after) triples in the order in which the two
\* nested loops of prepare_raw_data visit them
ModeSplits(mode) ==
  [j \in 1..Len(config.data[mode]) |->
     [mode |-> mode, one_path |-> config.data[mode][j],
      one_path_after |-> after(config.data[mode][j])]]
AllSplits == Concat([k \in 1..Len(all_modes) |-> ModeSplits(all_modes[k])])

cur == AllSplits[split_i]

\* the label accumulator prepare_raw_data starts from
EmptyLabels ==
  IF output_num <= 1 THEN <<>> ELSE [h \in 1..output_num |-> <<>>]

\* prepare_raw_data returning the accumulator without the final wrapping
ReturnedLabels_unwrapped(acc) == acc

\* the value prepare_raw_data returns for the label accumulator
ReturnedLabels(acc) == IF output_num <= 1 THEN << acc >> ELSE acc

\* ------------------------------------------- raw-file loader (contract)
RawLine(one_path, f, k) ==
  [form |-> "raw", path |-> one_path, field |-> f, line |-> k]
LabelOf(one_path, h, k) == [path |-> one_path, head |-> h, line |-> k]

\* load_a_raw_file: the text of a file of n lines
LoadText(one_path, n) ==
  IF multi_text
    THEN [f \in 1..NumFields |-> [k \in 1..n |-> RawLine(one_path, f, k)]]
    ELSE [k \in 1..n |-> RawLine(one_path, 1, k)]

\* load_a_raw_file: the label of a file of n lines; an empty structure of
\* matching shape when labels are absent
LoadLabel(one_path, n, no_label) ==
  LET m == IF no_label THEN 0 ELSE n
  IN  IF multi_output
        THEN [h \in 1..output_num |-> [k \in 1..m |-> LabelOf(one_path, h, k)]]
        ELSE [k \in 1..m |-> LabelOf(one_path, 1, k)]

\* ------------------------------------------------- pipeline (external)
\* what the pre-process pipeline yields for one raw string: processed bytes
Pipeline(x) == [x EXCEPT !.form = "bytes"]
\* one_line.decode("utf-8")
decode(b) == [b EXCEPT !.form = "str"]

\* the b-th batch of the dataset built over the staged value
Batch(staged, b) ==
  LET lo == (b - 1) * batch_size + 1
      hi == IF b * batch_size < Len(staged) THEN b * batch_size ELSE Len(staged)
  IN  [k \in 1..(hi - lo + 1) |-> Pipeline(staged[lo + k - 1])]

\* the text field the current iteration works on
one_text == IF multi_text THEN text[i] ELSE text

\* int(math.ceil(len(text) / float(self.batch_size)))
batch_num == Ceil(Len(one_text), batch_size)

\* the placeholder created by the current iteration: a fresh graph tensor
NewPlaceholder == Len(init_feed_dict) + 1

\* feed_dict lookup: the value fed for placeholder ph
Fed(feed, ph) == (CHOOSE e \in { feed[k] : k \in 1..Len(feed) } : e.ph = ph).value

Event(op, path, flag, arg) == [op |-> op, path |-> path, flag |-> flag, arg |-> arg]

cfgv == <<config, multi_text>>
fsv  == <<dirs, files>>
accv == <<all_texts, all_labels>>
locv == <<text, label, one_text_after>>

\* do_prepare with the exception caught and dropped
Raise_swallowed(e) == pc' = "do_prepare_returned" /\ exc' = e

\* an exception leaves the running call: nothing in base_preparer.py catches it
Raise(e) == pc' = "raised" /\ exc' = e

\* do_prepare with prepare_embed called before prepare_vocabs
do_prepare_embed_first(stmt) ==
  CASE stmt = "prepare_raw_data" -> "embed"
    [] stmt = "prepare_embed"    -> "raw_returned"
    [] stmt = "prepare_vocabs"   -> "do_prepare_returned"

\* do_prepare: where control is once its statement stmt has returned
do_prepare(stmt) ==
  CASE stmt = "prepare_raw_data" -> "raw_returned"
    [] stmt = "prepare_vocabs"   -> "embed"
    [] stmt = "prepare_embed"    -> "do_prepare_returned"

\* ------------------------------------------------------ prepare_raw_data
\* entry of prepare_raw_data: the two accumulators
PrepareRawData ==
  /\ pc = "prepare_raw_data"
  /\ all_labels' = EmptyLabels
  /\ all_texts' = <<>>
  /\ split_i' = 1
  /\ pc' = IF AllSplits = <<>> THEN "return_raw" ELSE "load"
  /\ UNCHANGED <<cfgv, fsv, init_feed_dict, i, locv, sess, text_after, ret,
                 exc, calls, trace>>

\* prepare_one_raw_data: text, label = self.load_a_raw_file(...)
LoadARawFile ==
  /\ pc = "load"
  /\ trace' = Append(trace, Event("load", cur.one_path,
                                  infer_without_label(cur.mode), cur.mode))
  /\ \/ \E n \in 0..MaxLines :
          /\ text' = LoadText(cur.one_path, n)
          /\ label' = LoadLabel(cur.one_path, n, infer_without_label(cur.mode))
          /\ one_text_after' = <<>>
          /\ i' = 1
          /\ pc' = IF multi_text /\ text' = <<>> THEN "labels" ELSE "stage"
          /\ UNCHANGED exc
     \/ /\ Raise("IOError")
        /\ UNCHANGED <<locv, i>>
  /\ UNCHANGED <<cfgv, fsv, init_feed_dict, accv, split_i, sess, text_after,
                 ret, calls>>

\* prepare_one_raw_data: the placeholder, its entry in init_feed_dict and the
\* iterator built over it
StageInput ==
  /\ pc = "stage"
  /\ init_feed_dict' =
       Append(init_feed_dict, [ph |-> NewPlaceholder, value |-> one_text])
  /\ pc' = "open"
  /\ UNCHANGED <<cfgv, fsv, accv, split_i, i, locv, sess, text_after, ret,
                 exc, calls, trace>>

\* run_text_pipeline: with tf.Session(...) as sess
OpenSession ==
  /\ pc = "open"
  /\ text_after' = <<>>
  /\ sess' = Append(sess, [iterator |-> Len(init_feed_dict), staged |-> <<>>])
  /\ trace' = Append(trace, Event("open", cur.one_path, FALSE, i))
  /\ pc' = "init"
  /\ UNCHANGED <<cfgv, fsv, init_feed_dict, accv, split_i, i, locv, ret, exc,
                 calls>>

\* run_text_pipeline: sess.run(text_iterator.initializer, feed_dict=...)
InitIterator ==
  /\ pc = "init"
  /\ trace' = Append(trace, Event("init", cur.one_path, FALSE, init_feed_dict))
  /\ \/ /\ sess' = [sess EXCEPT ![Len(sess)].staged =
                                   Fed(init_feed_dict, sess[Len(sess)].iterator)]
        /\ pc' = IF batch_num = 0 THEN "close" ELSE "pull"
        /\ UNCHANGED exc
     \/ /\ sess' = SubSeq(sess, 1, Len(sess) - 1)
        /\ Raise("PipelineError")
  /\ UNCHANGED <<cfgv, fsv, init_feed_dict, accv, split_i, i, locv,
                 text_after, ret, calls>>

\* run_text_pipeline: text_after.append(sess.run(text_t))
PullBatch ==
  /\ pc = "pull"
  /\ trace' = Append(trace, Event("pull", cur.one_path, FALSE, Len(text_after) + 1))
  /\ \/ /\ text_after' =
             Append(text_after, Batch(sess[Len(sess)].staged, Len(text_after) + 1))
        /\ pc' = IF Len(text_after') = batch_num THEN "close" ELSE "pull"
        /\ UNCHANGED <<sess, exc>>
     \/ /\ sess' = SubSeq(sess, 1, Len(sess) - 1)
        /\ Raise("PipelineError")
        /\ UNCHANGED text_after
  /\ UNCHANGED <<cfgv, fsv, init_feed_dict, accv, split_i, i, locv, ret, calls>>

\* run_text_pipeline: leaving the with block
CloseSession ==
  /\ pc = "close"
  /\ sess' = SubSeq(sess, 1, Len(sess) - 1)
  /\ trace' = Append(trace, Event("close", cur.one_path, FALSE, i))
  /\ pc' = "decode"
  /\ UNCHANGED <<cfgv, fsv, init_feed_dict, accv, split_i, i, locv,
                 text_after, ret, exc, calls>>

\* run_text_pipeline: np.concatenate(text_after, axis=0), which raises
\* ValueError on an empty list; then the decoding and all_texts += text_after
ConcatDecode ==
  /\ pc = "decode"
  /\ IF text_after = <<>>
       THEN /\ Raise("ValueError")
            /\ UNCHANGED <<all_texts, one_text_after, i>>
       ELSE LET text_after_arr == Concat(text_after)
                decoded == [k \in 1..Len(text_after_arr) |->
                              decode(text_after_arr[k])]
            IN  /\ all_texts' = all_texts \o decoded
                /\ IF multi_text
                     THEN /\ one_text_after' = Append(one_text_after, decoded)
                          /\ i' = i + 1
                          /\ pc' = IF i < Len(text) THEN "stage" ELSE "labels"
                     ELSE /\ one_text_after' = decoded
                          /\ pc' = "labels"
                          /\ UNCHANGED i
                /\ UNCHANGED exc
  /\ UNCHANGED <<cfgv, fsv, init_feed_dict, all_labels, split_i, text, label,
                 sess, text_after, ret, calls, trace>>

\* the label accumulator after the current split's labels are added
Accumulated ==
  IF multi_output
    THEN [h \in 1..output_num |-> all_labels[h] \o label[h]]
    ELSE all_labels \o label

\* prepare_one_raw_data: all_labels[i] += label[i] / all_labels += label
AccumulateLabels ==
  /\ pc = "labels"
  /\ all_labels' = Accumulated
  /\ pc' = "save"
  /\ UNCHANGED <<cfgv, fsv, init_feed_dict, all_texts, split_i, i, locv, sess,
                 text_after, ret, exc, calls, trace>>

\* prepare_one_raw_data: self.save_a_raw_file(...), then the next split
SaveARawFile ==
  /\ pc = "save"
  /\ trace' = Append(trace, Event("save", cur.one_path_after,
                                  infer_without_label(cur.mode), label))
  /\ \/ /\ files' = (cur.one_path_after :>
                        [kind |-> "after", data |-> <<one_text_after, label>>])
                     @@ files
        /\ split_i' = split_i + 1
        /\ pc' = IF split_i < Len(AllSplits) THEN "load" ELSE "return_raw"
        /\ UNCHANGED exc
     \/ /\ Raise("IOError")
        /\ UNCHANGED <<files, split_i>>
  /\ UNCHANGED <<cfgv, dirs, init_feed_dict, accv, i, locv, sess, text_after,
                 ret, calls>>

\* prepare_raw_data: the final wrapping and the return
ReturnRawData ==
  /\ pc = "return_raw"
  /\ all_labels' = ReturnedLabels(all_labels)
  /\ ret' = <<all_texts, all_labels'>>
  /\ pc' = do_prepare("prepare_raw_data")
  /\ UNCHANGED <<cfgv, fsv, init_feed_dict, all_texts, split_i, i, locv, sess,
                 text_after, exc, calls, trace>>

NextRaw ==
  \/ PrepareRawData
  \/ LoadARawFile
  \/ StageInput
  \/ OpenSession
  \/ InitIterator
  \/ PullBatch
  \/ CloseSession
  \/ ConcatDecode
  \/ AccumulateLabels
  \/ SaveARawFile
  \/ ReturnRawData

\* -------------------------------------------------------- prepare_vocabs
VocabFile(kind, data) == [kind |-> kind, data |-> data]

\* prepare_text_vocab: is the existing file reused
ReuseTextVocab == exists(text_vocab_file_path) /\ use_custom_vocab

\* prepare_label_vocab looking at the first head's file for every head
ReuseLabelVocab_first(h) == exists(label_vocab_file_paths[1]) /\ use_custom_vocab

\* prepare_label_vocab: is head h's existing file reused
ReuseLabelVocab(h) == exists(label_vocab_file_paths[h]) /\ use_custom_vocab

\* prepare_vocabs: self.prepare_text_vocab(all_texts)
PrepareTextVocab ==
  /\ pc = "raw_returned"
  /\ IF ReuseTextVocab
       THEN /\ pc' = IF output_num >= 1 THEN "label_vocab"
                                          ELSE do_prepare("prepare_vocabs")
            /\ UNCHANGED <<files, exc, trace>>
       ELSE /\ trace' = Append(trace, Event("prepare_vocab",
                                  text_vocab_file_path, FALSE, all_texts))
            /\ \/ /\ files' = (text_vocab_file_path :>
                                  VocabFile("vocab", all_texts)) @@ files
                  /\ pc' = IF output_num >= 1 THEN "label_vocab"
                                          ELSE do_prepare("prepare_vocabs")
                  /\ UNCHANGED exc
               \/ /\ Raise("IOError")
                  /\ UNCHANGED files
  /\ i' = 1
  /\ UNCHANGED <<cfgv, dirs, init_feed_dict, accv, split_i, locv, sess,
                 text_after, ret, calls>>

\* prepare_label_vocab: one iteration of the loop over the output heads
PrepareLabelVocab ==
  /\ pc = "label_vocab"
  /\ IF ReuseLabelVocab(i)
       THEN /\ pc' = IF i < output_num THEN "label_vocab"
                                         ELSE do_prepare("prepare_vocabs")
            /\ i' = i + 1
            /\ UNCHANGED <<files, exc, trace>>
       ELSE /\ trace' =
                 Append(trace,
                   IF config.task.classes_vocab
                     THEN Event("prepare_vocab_from_config",
                                label_vocab_file_paths[i], multi_output,
                                IF multi_output THEN <<i>> ELSE <<>>)
                     ELSE Event("prepare_vocab", label_vocab_file_paths[i],
                                FALSE, all_labels[i]))
            /\ \/ /\ files' = (label_vocab_file_paths[i] :>
                                  IF config.task.classes_vocab
                                    THEN VocabFile("vocab_from_config", <<>>)
                                    ELSE VocabFile("vocab", all_labels[i]))
                               @@ files
                  /\ pc' = IF i < output_num THEN "label_vocab"
                                         ELSE do_prepare("prepare_vocabs")
                  /\ i' = i + 1
                  /\ UNCHANGED exc
               \/ /\ Raise("IOError")
                  /\ UNCHANGED <<files, i>>
  /\ UNCHANGED <<cfgv, dirs, init_feed_dict, accv, split_i, locv, sess,
                 text_after, ret, calls>>

\* prepare_embed, then do_prepare returns
PrepareEmbed ==
  /\ pc = "embed"
  /\ IF config.model.use_pre_train_emb
       THEN /\ trace' = Append(trace, Event("prepare_embedding",
                                  config.model.embedding_path, FALSE,
                                  text_vocab_file_path))
            /\ \/ /\ files' = (config.model.embedding_path :>
                                  VocabFile("embedding", <<>>)) @@ files
                  /\ pc' = do_prepare("prepare_embed")
                  /\ UNCHANGED exc
               \/ /\ Raise("IOError")
                  /\ UNCHANGED files
       ELSE /\ pc' = do_prepare("prepare_embed")
            /\ UNCHANGED <<files, exc, trace>>
  /\ UNCHANGED <<cfgv, dirs, init_feed_dict, accv, split_i, i, locv, sess,
                 text_after, ret, calls>>

\* ------------------------------------------------------------ the caller
\* the effect of one call of done_prepare on the filesystem
DonePrepareEffect ==
  /\ dirs' = done_prepare_dirs
  /\ files' = done_prepare_files
  /\ exc' = IF done_prepare_raises THEN "FileNotFoundError" ELSE "none"
  /\ trace' = Append(trace, Event("done_prepare", done_sign, FALSE, <<>>))

\* the caller asks skip_prepare before it runs do_prepare
RunSkipPrepare ==
  /\ pc = "start"
  /\ ret' = << skip_prepare >>
  /\ pc' = IF skip_prepare THEN "skipped" ELSE "prepare_raw_data"
  /\ UNCHANGED <<cfgv, fsv, init_feed_dict, accv, split_i, i, locv, sess,
                 text_after, exc, calls, trace>>

\* the caller marks the stage done once do_prepare has returned
RunDonePrepare ==
  /\ pc = "do_prepare_returned"
  /\ DonePrepareEffect
  /\ pc' = IF done_prepare_raises THEN "done_raised" ELSE "done"
  /\ UNCHANGED <<cfgv, init_feed_dict, accv, split_i, i, locv, sess,
                 text_after, ret, calls>>

Next ==
  \/ RunSkipPrepare
  \/ NextRaw
  \/ PrepareTextVocab
  \/ PrepareLabelVocab
  \/ PrepareEmbed
  \/ RunDonePrepare

\* ------------------------------------------- lifecycle calls in any order
CallSkipPrepare ==
  /\ pc = "idle" /\ calls < MaxCalls
  /\ calls' = calls + 1
  /\ ret' = << skip_prepare >>
  /\ exc' = "none"
  /\ trace' = Append(trace, Event("skip_prepare", done_sign, FALSE, <<>>))
  /\ UNCHANGED <<cfgv, fsv, init_feed_dict, accv, pc, split_i, i, locv, sess,
                 text_after>>

CallDonePrepare ==
  /\ pc = "idle" /\ calls < MaxCalls
  /\ calls' = calls + 1
  /\ DonePrepareEffect
  /\ ret' = <<>>
  /\ UNCHANGED <<cfgv, init_feed_dict, accv, pc, split_i, i, locv, sess,
                 text_after>>

NextLife == CallSkipPrepare \/ CallDonePrepare

\* ------------------------------------------------------- configurations
TextVocabPath     == <<"exp", "text_vocab.txt">>
LabelVocabPath(h) == <<"exp", "label_vocab_" \o ToString(h) \o ".txt">>
EmbeddingPath     == <<"exp", "embedding.pkl">>
DataPath(mode, j) == <<"data", mode \o "_" \o ToString(j) \o ".txt">>
MarkerPaths       == { <<"done">>, <<"exp", "done">>, <<"exp", "run", "done">> }

Opt(S) == {Absent} \cup { <<v>> : v \in S }

\* the label_vocab option: a single path (k = -1) or a list of k paths
LabelVocabCfg(k) ==
  IF k < 0
    THEN [is_list |-> FALSE, v |-> LabelVocabPath(1)]
    ELSE [is_list |-> TRUE, v |-> [h \in 1..k |-> LabelVocabPath(h)]]

\* how many paths each mode configures: up to two per mode, three in all
PathCounts ==
  { n \in [Modes -> {0, 1, 2}] : n[TRAIN] + n[EVAL] + n[INFER] <= 3 }

DataCfg(n) == [mode \in Modes |-> [j \in 1..n[mode] |-> DataPath(mode, j)]]

Config(preparer, infer, task, model, data) ==
  [preparer |-> preparer, infer |-> infer, task |-> task, model |-> model,
   data |-> data]

\* a marker file can exist only where its directory exists
MarkerStates(sign) ==
  IF sign = <<>>
    THEN {[dirs |-> {}, files |-> <<>>]}
    ELSE {[dirs |-> Prefixes(SubSeq(sign, 1, k)), files |-> <<>>] :
            k \in 0..(Len(sign) - 1)}
         \cup {[dirs |-> Prefixes(dirname(sign)),
                files |-> (sign :> VocabFile("empty", <<>>))]}

InitLocals ==
  /\ init_feed_dict = <<>>
  /\ all_texts = <<>> /\ all_labels = <<>>
  /\ split_i = 0 /\ i = 0
  /\ text = <<>> /\ label = <<>> /\ one_text_after = <<>>
  /\ sess = <<>> /\ text_after = <<>>
  /\ ret = <<>> /\ exc = "none" /\ calls = 0 /\ trace = <<>>

\* a preparer object on which the lifecycle methods are called
InitLife ==
  /\ \E r \in Opt(BOOLEAN), d \in Opt({<<>>} \cup MarkerPaths) :
        /\ config = Config([reuse |-> r, done_sign |-> d],
                            [infer_no_label |-> Absent],
                            [batch_size |-> 1, use_custom_vocab |-> Absent,
                             text_vocab |-> TextVocabPath,
                             label_vocab |-> LabelVocabCfg(-1),
                             classes_vocab |-> FALSE],
                            [use_pre_train_emb |-> FALSE,
                             embedding_path |-> EmbeddingPath],
                            DataCfg([mode \in Modes |-> 1]))
        /\ \E st \in MarkerStates(Get(d, <<>>)) :
              dirs = st.dirs /\ files = st.files
  /\ multi_text = FALSE
  /\ pc = "idle"
  /\ InitLocals

SpecLife == InitLife /\ [][NextLife]_vars

\* a call of prepare_raw_data
InitRaw ==
  /\ \E nl \in Opt(BOOLEAN), b \in 1..MaxBatch, lv \in -1..MaxOut,
        n \in PathCounts :
        config = Config([reuse |-> Absent, done_sign |-> Absent],
                        [infer_no_label |-> nl],
                        [batch_size |-> b, use_custom_vocab |-> Absent,
                         text_vocab |-> TextVocabPath,
                         label_vocab |-> LabelVocabCfg(lv),
                         classes_vocab |-> FALSE],
                        [use_pre_train_emb |-> FALSE,
                         embedding_path |-> EmbeddingPath],
                        DataCfg(n))
  /\ multi_text \in BOOLEAN
  /\ dirs = {} /\ files = <<>>
  /\ pc = "prepare_raw_data"
  /\ InitLocals

SpecRaw == InitRaw /\ [][NextRaw]_vars

\* the vocabulary files of a configuration with k label vocabulary paths
VocabPaths(k) ==
  {TextVocabPath} \cup { LabelVocabPath(h) : h \in 1..(IF k < 0 THEN 1 ELSE k) }

\* a whole preparation run: the caller, do_prepare, done_prepare
Init ==
  /\ \E r \in {Absent, <<FALSE>>},
        d \in Opt({<<"done">>, <<"exp", "done">>}),
        cv \in {Absent, <<TRUE>>}, lv \in -1..MaxOut,
        classes \in BOOLEAN, emb \in BOOLEAN :
        /\ config = Config([reuse |-> r, done_sign |-> d],
                            [infer_no_label |-> Absent],
                            [batch_size |-> MaxBatch, use_custom_vocab |-> cv,
                             text_vocab |-> TextVocabPath,
                             label_vocab |-> LabelVocabCfg(lv),
                             classes_vocab |-> classes],
                            [use_pre_train_emb |-> emb,
                             embedding_path |-> EmbeddingPath],
                            DataCfg([mode \in Modes |-> 1]))
        /\ \E st \in MarkerStates(Get(d, <<>>)), old \in SUBSET VocabPaths(lv) :
              /\ dirs = st.dirs \cup (IF old = {} THEN {} ELSE {<<"exp">>})
              /\ files = [f \in old |-> VocabFile("custom", <<>>)] @@ st.files
  /\ multi_text = FALSE
  /\ pc = "start"
  /\ InitLocals

Spec == Init /\ [][Next]_vars

\* =============================================================== claims
Last(s) == s[Len(s)]
IsPrefix(s, t) == Len(s) <= Len(t) /\ SubSeq(t, 1, Len(s)) = s

\* the call that has just returned
JustCalled(op) == trace /= <<>> /\ Last(trace).op = op
\* this step is a call of op
Calling(op) == trace' /= trace /\ Last(trace').op = op

\* the configured marker path is non-empty and a file exists there
MarkerFileExists ==
  /\ config.preparer.done_sign \notin {Absent, << <<>> >>}
  /\ config.preparer.done_sign[1] \in DOMAIN files

\* C5: skip_prepare returns true exactly when the done-marker path is
\* non-empty, the marker file exists and reuse (true when not configured) is
\* true, and a call changes neither the filesystem nor the preparer.
C5_SkipPrepareIff ==
  [][ Calling("skip_prepare") =>
        /\ ret'[1] = (MarkerFileExists /\ config.preparer.reuse /= <<FALSE>>)
        /\ UNCHANGED <<config, multi_text, dirs, files, init_feed_dict>> ]_vars

C5_Witness ==
  /\ JustCalled("skip_prepare") /\ ret = <<TRUE>>
  /\ config.preparer.reuse = Absent

\* C4: done_prepare never raises and, for a non-empty marker path, leaves the
\* marker file and its parent directories existing; a second call changes
\* nothing; with an empty path every call is a no-op.
C4_DonePrepareTotalIdempotent ==
  [][ Calling("done_prepare") =>
        /\ exc' = "none"
        /\ IF done_sign = <<>>
             THEN UNCHANGED <<dirs, files>>
             ELSE /\ done_sign \in DOMAIN files'
                  /\ files'[done_sign].data = <<>>
                  /\ Prefixes(dirname(done_sign)) \subseteq dirs'
        /\ JustCalled("done_prepare") => UNCHANGED <<dirs, files>> ]_vars

\* ---------------------------------------------------------------- C1
\* C1: the done-marker comes into existence, and skip_prepare changes its
\* answer, only in the caller's done_prepare step, which is taken only after
\* do_prepare has returned without an exception; a run that raised leaves
\* the marker as it found it.
C1_MarkerOnlyAfterSuccess ==
  [][ ( \/ (done_sign \in DOMAIN files') /= (done_sign \in DOMAIN files)
        \/ skip_prepare' /= skip_prepare
        \/ Calling("done_prepare") )
      => /\ pc = "do_prepare_returned" /\ exc = "none"
         /\ \A k \in 1..Len(trace) : trace[k].op /= "done_prepare" ]_vars

C1_Witness ==
  /\ pc = "raised" /\ exc = "IOError"
  /\ JustCalled("prepare_embedding")
  /\ done_sign /= <<>> /\ ~exists(done_sign)

\* ---------------------------------------------------------------- C6
EventsBefore(k, ops) == { j \in 1..(k - 1) : trace[j].op \in ops }
VocabOps == {"prepare_vocab", "prepare_vocab_from_config"}

\* every split has been loaded, run through a session that is closed again,
\* and saved to its ".after" path before position k of the log
AllSplitsDoneBefore(k) ==
  \A s \in 1..Len(AllSplits) :
    /\ \E j \in EventsBefore(k, {"load"}) : trace[j].path = AllSplits[s].one_path
    /\ \E j \in EventsBefore(k, {"close"}) : trace[j].path = AllSplits[s].one_path
    /\ \E j \in EventsBefore(k, {"save"}) :
          trace[j].path = AllSplits[s].one_path_after

\* the vocabulary file at path was written before position k, or is an
\* existing file the custom-vocab option keeps
VocabReadyBefore(k, path) ==
  \/ \E j \in EventsBefore(k, VocabOps) : trace[j].path = path
  \/ config.task.use_custom_vocab = <<TRUE>> /\ path \in DOMAIN files

\* C6: no vocabulary is written before every split is loaded, processed and
\* saved; the text vocabulary comes before any label vocabulary; the
\* embedding preparer runs only when pretrained embeddings are enabled and
\* after all vocabularies; after an exception nothing more happens.  The
\* log only grows, so each call is judged in the state it leaves behind.
C6_StepOrder ==
  /\ trace /= <<>> =>
        LET k == Len(trace)
        IN  /\ trace[k].op \in VocabOps \cup {"prepare_embedding", "done_prepare"}
                 => AllSplitsDoneBefore(k)
            /\ (trace[k].op \in VocabOps /\ trace[k].path /= config.task.text_vocab)
                 => VocabReadyBefore(k, config.task.text_vocab)
            /\ trace[k].op \in {"prepare_embedding", "done_prepare"}
                 => /\ VocabReadyBefore(k, config.task.text_vocab)
                    /\ \A h \in 1..output_num :
                          VocabReadyBefore(k, label_vocab_file_paths[h])
            /\ trace[k].op = "prepare_embedding" => config.model.use_pre_train_emb
            /\ trace[k].op = "done_prepare"
                 => (config.model.use_pre_train_emb
                       => EventsBefore(k, {"prepare_embedding"}) /= {})
  /\ exc /= "none" => (pc \in {"raised", "done_raised"} /\ ~ENABLED Next)
  /\ pc = "done" => exc = "none"

C6_Witness ==
  /\ pc = "done" /\ output_num = 2 /\ config.model.use_pre_train_emb
  /\ \E k \in 1..Len(trace) :
        trace[k].op = "prepare_vocab" /\ trace[k].path = config.task.text_vocab
  /\ \E k \in 1..Len(trace) :
        trace[k].op = "prepare_vocab" /\ trace[k].path = label_vocab_file_paths[2]

\* ---------------------------------------------------------------- C8
Kept(path) == config.task.use_custom_vocab = <<TRUE>> /\ path \in DOMAIN files
Generated(path) ==
  /\ path \in DOMAIN files'
  /\ files'[path].kind \in {"vocab", "vocab_from_config"}
  /\ Last(trace').op \in VocabOps /\ Last(trace').path = path
  /\ Len(trace') = Len(trace) + 1
OthersUntouched(path) ==
  /\ DOMAIN files' \subseteq DOMAIN files \cup {path}
  /\ \A f \in DOMAIN files \ {path} : f \in DOMAIN files' /\ files'[f] = files[f]

\* C8: with the custom-vocab option set, an existing text vocabulary file,
\* and each existing label vocabulary file on its own, is not written; in
\* every other case the vocabulary file is generated, and no step writes any
\* other file.
C8_VocabReuse ==
  [][ /\ pc = "raw_returned" =>
           IF Kept(config.task.text_vocab)
             THEN files' = files /\ trace' = trace
             ELSE pc' /= "raised" =>
                    /\ Generated(config.task.text_vocab)
                    /\ files'[config.task.text_vocab].data = all_texts
                    /\ OthersUntouched(config.task.text_vocab)
      /\ pc = "label_vocab" =>
           IF Kept(label_vocab_file_paths[i])
             THEN files' = files /\ trace' = trace
             ELSE pc' /= "raised" =>
                    /\ Generated(label_vocab_file_paths[i])
                    /\ OthersUntouched(label_vocab_file_paths[i])
      /\ pc \in {"raw_returned", "label_vocab"} =>
           \A f \in DOMAIN files : Kept(f) /\ files[f].kind = "custom"
                                     => files'[f] = files[f] ]_vars

C8_Witness ==
  /\ pc = "done" /\ output_num = 2 /\ use_custom_vocab
  /\ files[config.task.text_vocab].kind = "custom"
  /\ files[label_vocab_file_paths[1]].kind = "custom"
  /\ files[label_vocab_file_paths[2]].kind = "vocab"

\* ---------------------------------------------------------------- C7
\* the mode whose paths contain the raw path, or the ".after" path, given
ModeOfPath(path) ==
  (CHOOSE s \in { AllSplits[k] : k \in 1..Len(AllSplits) } :
     path \in {s.one_path, s.one_path_after}).mode

\* a label structure without a single label in it
NoLabels(l) == IF multi_output THEN \A h \in 1..Len(l) : l[h] = <<>> ELSE l = <<>>

\* C7: the label-absent flag given to the loader and to the saver is true
\* exactly for an INFER split under the infer_no_label option; the labels
\* given to the saver are the ones the loader returned, and under the flag
\* they hold no label.  Each call is judged in the state it leaves behind.
C7_LabelAbsentFlag ==
  (JustCalled("load") \/ JustCalled("save")) =>
     LET call == Last(trace)
     IN  /\ call.flag = ( /\ ModeOfPath(call.path) = INFER
                          /\ config.infer.infer_no_label = <<TRUE>> )
         /\ call.op = "save" =>
               /\ call.arg = label
               /\ call.flag => NoLabels(call.arg)

C7_Witness ==
  /\ multi_output /\ pc = "raw_returned"
  /\ \E k \in 1..Len(trace) : trace[k].op = "save" /\ trace[k].flag
  /\ \E k \in 1..Len(trace) :
        trace[k].op = "save" /\ ~trace[k].flag /\ ~NoLabels(trace[k].arg)

\* ---------------------------------------------------------------- C2
\* what was saved for a split: the processed text, flattened, and the labels
SavedText(s) ==
  LET d == files[s.one_path_after].data[1]
  IN  IF multi_text THEN Concat(d) ELSE d
SavedLabel(s) == files[s.one_path_after].data[2]

\* the processed texts of all splits, the modes taken in the given order and
\* the paths of a mode in their listed order
TextsInOrder(modes) ==
  Concat([k \in 1..Len(modes) |->
            Concat([j \in 1..Len(ModeSplits(modes[k])) |->
                      SavedText(ModeSplits(modes[k])[j])])])

\* C2 as stated: all_texts is the TRAIN splits' texts, then EVAL's, then
\* INFER's.
C2_TrainEvalInferOrder ==
  pc = "raw_returned" => ret[1] = TextsInOrder(<<TRAIN, EVAL, INFER>>)

\* C2 as the code has it: all_texts is the INFER splits' texts, then EVAL's,
\* then TRAIN's, the paths of a mode in their listed order.
C2_InferEvalTrainOrder ==
  pc = "raw_returned" =>
    /\ ret[1] = TextsInOrder(<<INFER, EVAL, TRAIN>>)
    /\ \A k \in 1..Len(ret[1]) : ret[1][k].form = "str"

C2_Witness ==
  /\ pc = "raw_returned" /\ Len(all_texts) >= 4
  /\ all_texts[1].path = DataPath(INFER, 1)
  /\ all_texts[Len(all_texts)].path = DataPath(TRAIN, 1)
  /\ \E k \in 1..Len(all_texts) : all_texts[k].path = DataPath(EVAL, 1)

\* ---------------------------------------------------------------- C3
\* the labels of head h of all splits in processing order; for a single
\* output the labels of all splits
LabelsOfHead(h) ==
  Concat([s \in 1..Len(AllSplits) |->
            IF multi_output THEN SavedLabel(AllSplits[s])[h]
                            ELSE SavedLabel(AllSplits[s])])

\* C3 as stated: all_labels has as many outer elements as the output count.
C3_OuterCountIsOutputNum ==
  pc = "raw_returned" => Len(ret[2]) = output_num

\* C3 as the code has it: one outer element for an output count of 0 or 1,
\* K for K > 1, each the concatenation of its labels in split-processing
\* order; while the splits are processed the accumulated labels only grow
\* at the end.
C3_LabelShape ==
  /\ [](pc = "raw_returned" =>
          /\ Len(ret[2]) = IF output_num <= 1 THEN 1 ELSE output_num
          /\ \A h \in 1..Len(ret[2]) : ret[2][h] = LabelsOfHead(h))
  /\ [][ (pc \notin {"prepare_raw_data", "return_raw"}) =>
            IF multi_output
              THEN \A h \in 1..output_num : IsPrefix(all_labels[h], all_labels'[h])
              ELSE IsPrefix(all_labels, all_labels') ]_vars

C3_Witness ==
  /\ pc = "raw_returned" /\ output_num = 2
  /\ Len(all_labels[2]) >= 3
  /\ all_labels[2][1].path /= all_labels[2][Len(all_labels[2])].path

\* ---------------------------------------------------------------- C9
\* the log positions of the events of the session opened at position k
SessionEnd(k) ==
  IF \E j \in (k + 1)..Len(trace) : trace[j].op \in {"close", "open"}
    THEN CHOOSE j \in (k + 1)..Len(trace) :
           /\ trace[j].op \in {"close", "open"}
           /\ \A m \in (k + 1)..(j - 1) : trace[m].op \notin {"close", "open"}
    ELSE Len(trace) + 1
Count(k, op) == Cardinality({ j \in (k + 1)..(SessionEnd(k) - 1) : trace[j].op = op })

\* C9: for a field of N >= 0 strings and a batch size B >= 1 one session is
\* opened, the iterator is initialised once in it, pulled ceil(N/B) times,
\* the batches are concatenated in pull order into the result, and the
\* session is closed before anything else starts; two sessions are never
\* open together.
C9_OneSessionPerField ==
  /\ Len(sess) <= 1
  /\ pc \in {"load", "stage", "open", "decode", "labels", "save", "return_raw",
              "raw_returned"} => sess = <<>>
  /\ \A k \in 1..Len(trace) :
        (trace[k].op = "open" /\ SessionEnd(k) <= Len(trace)) =>
           /\ trace[SessionEnd(k)].op = "close"
           /\ Count(k, "init") = 1
           /\ trace[k + 1].op = "init"
           /\ Count(k, "pull") = Ceil(Len(Last(trace[k + 1].arg).value), batch_size)
  /\ pc = "decode" =>
        /\ JustCalled("close")
        /\ Len(text_after) = Ceil(Len(one_text), batch_size)
        /\ Concat(text_after) = [k \in 1..Len(one_text) |-> Pipeline(one_text[k])]
  /\ exc /= "ValueError"

\* --------------------------------------------------------------- C10
\* C10: what is fed when a session is initialised is the staged input of the
\* current field alone; nothing staged for an earlier field or split is
\* still held.
C10_OnlyCurrentFieldStaged ==
  /\ \A k \in 1..Len(trace) :
        trace[k].op = "init" =>
          \A e \in 1..Len(trace[k].arg) :
            \A x \in 1..Len(trace[k].arg[e].value) :
              /\ trace[k].arg[e].value[x].path = trace[k].path
  /\ Len(init_feed_dict) <= 1

====
